---- MODULE Spec2Model ----
(***************************************************************************)
(* txt2txn-web: the dashboard page (pages/dashboard.tsx), the wallet /     *)
(* order-book workflows it drives (util/utils.ts), and the server-side     *)
(* cookie check of the login page.                                         *)
(*                                                                         *)
(* One mounted DashboardPage is modelled: its React state, the Privy       *)
(* session flags it reads, the route, and the asynchronous runs of         *)
(* queryIntent.  Every `await` of the code is a point where a run is       *)
(* suspended; an action resolves the pending promise (successfully or      *)
(* with a rejection) and executes the synchronous code up to the next      *)
(* await.  User events interleave with the suspended runs.                 *)
(***************************************************************************)
EXTENDS Naturals, Sequences, FiniteSets

VARIABLES
    ready,            \* usePrivy().ready
    authenticated,    \* usePrivy().authenticated
    route,            \* the page shown by the router
    effectPending,    \* the useEffect on [ready, authenticated] is scheduled
    status,           \* useState status (the message of the popup)
    showStatusPopup,  \* useState showStatusPopup
    loading,          \* useState loading
    runs,             \* the invocations of queryIntent, by slot
    ssr               \* the login page's getServerSideProps, for one request

vars == <<ready, authenticated, route, effectPending,
          status, showStatusPopup, loading, runs, ssr>>

privy == <<ready, authenticated, route, effectPending>>
ui    == <<status, showStatusPopup, loading>>

----------------------------------------------------------------------------
(* Bounds *)

\* Slots for invocations of queryIntent; a slot is reused once its run ended.
MaxRuns == 2

\* The number of times the order book may answer OPEN to one waitForOrderStatus.
MaxPolls == 2

\* The largest amount, in token units, a swap may ask for; allowances range
\* one beyond it.
MaxAmount == 2

RunIds == 1..MaxRuns

----------------------------------------------------------------------------
(* Tables of util/utils.ts *)

\* The chain names the backend may send; "polygon" is in none of the tables.
ChainInputs == {"sepolia", "mainnet", "base", "polygon"}

\* supportedChains: chain name -> chain id
supportedChains ==
    [sepolia |-> 11155111, mainnet |-> 1, base |-> 8453]

\* Token addresses the backend may send (abbreviated): testnet USDC on
\* sepolia, WETH on mainnet, and an address that is in no table.
TokenInputs == {"0x1c7D", "0xC02a", "0xdead"}

\* decimalConverter: chain id -> token address -> decimals
decimalConverter ==
    [id \in {11155111, 1} |->
        IF id = 11155111
        THEN [t \in {"0x1c7D", "0x0821", "0xB4F1", "0xbe72"} |->
                 IF t \in {"0x1c7D", "0x0821"} THEN 6 ELSE 18]
        ELSE [t \in {"0xC02a", "0xA0b8", "0x6B17"} |->
                 IF t = "0xA0b8" THEN 6 ELSE 18]]

\* supportedChains[chain] === undefined
ChainUnsupported(chain) == chain \notin DOMAIN supportedChains

\* decimalConverter[chainId] === undefined
NoChainDecimals(chain) == supportedChains[chain] \notin DOMAIN decimalConverter

\* decimalConverter[chainId][token] === undefined
NoTokenDecimals(chain, token) ==
    token \notin DOMAIN decimalConverter[supportedChains[chain]]

\* OrderStatus of the order book
OrderStatuses == {"presignaturePending", "open", "fulfilled", "cancelled", "expired"}
OPEN == "open"
FULFILLED == "fulfilled"

----------------------------------------------------------------------------
(* The backend's answer *)

\* data.transaction_type
TransactionTypes == {"transfer", "swap", "other"}

\* data.response: absent, without an amount, with an amount parseUnits
\* rejects, or complete
Payloads == {"missing", "noAmount", "badAmount", "full"}

----------------------------------------------------------------------------
(* One invocation of queryIntent *)

IdleRun ==
    [ pc          |-> "idle",     \* the await the run is suspended at
      type        |-> "none",     \* data.transaction_type
      payload     |-> "none",     \* the shape of data.response
      chain       |-> "none",     \* data.response.chain
      token       |-> "none",     \* data.response.token / fromAsset
      recvIsAddr  |-> FALSE,      \* ethers.utils.isAddress(recipientAddress)
      wallet      |-> FALSE,      \* wallets[0] is defined
      transferTo  |-> "none",     \* receiverAddress, the first argument of transfer
      required    |-> 0,          \* amountDecimals, the amount to sell
      allowance   |-> 0,          \* existingAllowance
      approved    |-> "none",     \* the value approve was called with
      calls       |-> <<>>,       \* the calls made, in order
      oks         |-> <<>>,       \* the calls that returned, in order
      failed      |-> "none",     \* what threw
      statusLog   |-> <<>>,       \* the statuses this run set, in order
      polls       |-> 0,          \* getOrder calls that answered OPEN
      answers     |-> <<>>,       \* enrichedOrder.status of each getOrder, in order
      orderStatus |-> "none" ]    \* what waitForOrderStatus returned

Ended == {"done", "crashed"}
InFlight(r) == runs[r].pc \notin ({"idle"} \cup Ended)

Call(run, op, pc) == [run EXCEPT !.pc = pc, !.calls = Append(@, op)]
Returned(run, op) == [run EXCEPT !.oks = Append(@, op)]
Logged(run, s)    == [run EXCEPT !.statusLog = Append(@, s)]

Count(seq, x) == Cardinality({i \in DOMAIN seq : seq[i] = x})
Has(seq, x)   == \E i \in DOMAIN seq : seq[i] = x
Last(seq)     == seq[Len(seq)]

\* The run goes on to its next await; no React state is set.
Resume(r, run) ==
    /\ runs' = [runs EXCEPT ![r] = run]
    /\ UNCHANGED <<ssr, privy, ui>>

----------------------------------------------------------------------------
(* The login page's getServerSideProps *)

\* req.cookies["privy-token"]: no such cookie, an empty one, a token the
\* auth provider accepts, a token it rejects
Cookies == {"absent", "empty", "valid", "invalid"}

IdleSsr ==
    [ pc          |-> "idle",     \* "verify" while verifyAuthToken is awaited
      cookie      |-> "absent",   \* cookieAuthToken
      verifyCalls |-> 0,          \* calls of client.verifyAuthToken
      verified    |-> "none",     \* "ok" when it returned claims, "threw" when it threw
      redirect    |-> "none" ]    \* redirect.destination of the result

\* !cookieAuthToken
NoCookie(cookie) == cookie \in {"absent", "empty"}

\* return { props: {}, redirect: { destination: "/dashboard", permanent: false } }
VerifiedRedirect == "/dashboard"

\* A variant of CatchRedirect: the catch block redirects as well
CatchRedirectDashboard == "/dashboard"

\* catch (error) { return { props: {} } }
CatchRedirect == "none"

----------------------------------------------------------------------------
Init ==
    /\ ready = FALSE
    /\ authenticated = FALSE
    /\ route = "/dashboard"
    /\ effectPending = TRUE
    /\ status = "empty"
    /\ showStatusPopup = FALSE
    /\ loading = FALSE
    /\ runs = [r \in RunIds |-> IdleRun]
    /\ ssr = IdleSsr

----------------------------------------------------------------------------
(* The Privy session and the route *)

\* usePrivy() finishes loading the session: ready becomes true and
\* authenticated is whatever the session says; the component re-renders.
PrivyReady ==
    /\ ~ready
    /\ ready' = TRUE
    /\ authenticated' \in BOOLEAN
    /\ effectPending' = TRUE
    /\ UNCHANGED <<ssr, route, ui, runs>>

\* The JSX is rendered only inside {ready && authenticated && ...}, and
\* React flushes a scheduled effect before it handles the next event.
Interactive ==
    /\ route = "/dashboard"
    /\ ~effectPending
    /\ ready /\ authenticated

\* onClick={logout}
Logout ==
    /\ Interactive
    /\ authenticated' = FALSE
    /\ effectPending' = TRUE
    /\ UNCHANGED <<ssr, ready, route, ui, runs>>

\* useEffect(() => { if (ready && !authenticated) router.push("/") })
AuthEffect ==
    /\ effectPending
    /\ effectPending' = FALSE
    /\ route' = IF ready /\ ~authenticated THEN "/" ELSE route
    /\ UNCHANGED <<ssr, ready, authenticated, ui, runs>>

----------------------------------------------------------------------------
(* The popup and the form *)

\* {showStatusPopup ? popup : form}: the OK button is in the popup
OkRendered == Interactive /\ showStatusPopup

\* A variant of SubmitRendered: the form is outside the authentication guard
SubmitRenderedUnguarded == route = "/dashboard" /\ ~effectPending /\ ~showStatusPopup

\* the textarea and the Submit button are in the form
SubmitRendered == Interactive /\ ~showStatusPopup

\* A variant of SubmitDisabled: the button is never disabled
SubmitNeverDisabled == FALSE

\* disabled={loading}
SubmitDisabled == loading

\* onClick={() => setShowStatusPopup(false)}
ClickOk ==
    /\ OkRendered
    /\ showStatusPopup' = FALSE
    /\ UNCHANGED <<ssr, privy, status, loading, runs>>

\* The slot a new invocation takes: the first that holds no run in flight.
FreeSlot(r) ==
    /\ ~InFlight(r)
    /\ \A q \in RunIds : q < r => InFlight(q)

----------------------------------------------------------------------------
(* queryIntent: the backend call *)

\* onClick={queryIntent}: setLoading(true), then fetch(...) is awaited.
\* wallets is the value useWallets() gave the render the click was made in.
ClickSubmit(r) ==
    /\ SubmitRendered
    /\ ~SubmitDisabled
    /\ FreeSlot(r)
    /\ \E w \in BOOLEAN :
          runs' = [runs EXCEPT ![r] = Call([IdleRun EXCEPT !.wallet = w], "fetch", "fetch")]
    /\ loading' = TRUE
    /\ UNCHANGED <<ssr, privy, status, showStatusPopup>>

\* A variant of QueryCatch: the return is missing, so the dispatch on the
\* undefined data follows and throws outside any try block
QueryCatchFallsThrough(r, run, what) ==
    /\ runs' = [runs EXCEPT ![r] =
                   Logged([run EXCEPT !.pc = "crashed", !.failed = what], "queryFailed")]
    /\ status' = "queryFailed"
    /\ showStatusPopup' = TRUE
    /\ loading' = FALSE
    /\ UNCHANGED <<ssr, privy>>

\* catch (error) of the backend call: status, popup, loading, return
QueryCatch(r, run, what) ==
    /\ runs' = [runs EXCEPT ![r] =
                   Logged([run EXCEPT !.pc = "done", !.failed = what], "queryFailed")]
    /\ status' = "queryFailed"
    /\ showStatusPopup' = TRUE
    /\ loading' = FALSE
    /\ UNCHANGED <<ssr, privy>>

\* An exception no try block of queryIntent encloses: the promise queryIntent
\* returned is rejected, nobody handles it, and no state is set.
Uncaught(r, run, what) ==
    /\ runs' = [runs EXCEPT ![r] = [run EXCEPT !.pc = "crashed", !.failed = what]]
    /\ UNCHANGED <<ssr, privy, ui>>

\* A variant of TransferCatch: setLoading(false) is missing
TransferCatchKeepsLoading(r, run, what) ==
    /\ runs' = [runs EXCEPT ![r] =
                   Logged([run EXCEPT !.pc = "done", !.failed = what], "oops")]
    /\ status' = "oops"
    /\ showStatusPopup' = TRUE
    /\ UNCHANGED <<ssr, privy, loading>>

\* catch (error) of the transfer branch
TransferCatch(r, run, what) ==
    /\ runs' = [runs EXCEPT ![r] =
                   Logged([run EXCEPT !.pc = "done", !.failed = what], "oops")]
    /\ status' = "oops"
    /\ showStatusPopup' = TRUE
    /\ loading' = FALSE
    /\ UNCHANGED <<ssr, privy>>

\* catch (error) of the swap branch
SwapCatch(r, run, what) ==
    /\ runs' = [runs EXCEPT ![r] =
                   Logged([run EXCEPT !.pc = "done", !.failed = what], "oops")]
    /\ status' = "oops"
    /\ showStatusPopup' = TRUE
    /\ loading' = FALSE
    /\ UNCHANGED <<ssr, privy>>

\* await fetch(...): it rejects, or answers with response.ok false, or true
FetchDone(r) ==
    /\ runs[r].pc = "fetch"
    /\ \E outcome \in {"reject", "notOk", "ok"} :
          IF outcome = "ok"
          THEN Resume(r, Call(Returned(runs[r], "fetch"), "json", "json"))
          ELSE QueryCatch(r, runs[r], outcome)

\* sendTransaction up to its first await: the wallet and chain guards, switchChain
SendTransactionStart(r, run) ==
    LET run1 == Call(run, "sendTransaction", run.pc) IN
    IF ~run1.wallet THEN TransferCatch(r, run1, "noWallet")
    ELSE IF ChainUnsupported(run1.chain) THEN TransferCatch(r, run1, "unsupportedChain")
    ELSE Resume(r, Call(run1, "switchChain", "t_switchChain"))

\* sendOrder up to its first await: the chain and wallet guards, switchChain
SendOrderStart(r, run) ==
    LET run1 == Call(run, "sendOrder", run.pc) IN
    IF ChainUnsupported(run1.chain) THEN SwapCatch(r, run1, "unsupportedChain")
    ELSE IF ~run1.wallet THEN SwapCatch(r, run1, "noWallet")
    ELSE Resume(r, Call(run1, "switchChain", "s_switchChain"))

\* if (data.transaction_type === "transfer") ... else if (... === "swap") ...
\* The destructuring of data.response stands before the try block;
\* amount.toString() stands inside it.
Dispatch(r, run) ==
    IF run.type = "transfer"
    THEN IF run.payload = "missing" THEN Uncaught(r, run, "TypeError")
         ELSE IF run.payload = "noAmount" THEN TransferCatch(r, run, "TypeError")
         ELSE SendTransactionStart(r, run)
    ELSE IF run.type = "swap"
    THEN IF run.payload = "missing" THEN Uncaught(r, run, "TypeError")
         ELSE IF run.payload = "noAmount" THEN SwapCatch(r, run, "TypeError")
         ELSE SendOrderStart(r, run)
    ELSE Resume(r, [run EXCEPT !.pc = "done"])

\* The answers the backend may give: any transaction_type with any shape of
\* response; the fields are read only from a response that has them.
BackendData ==
    { [type |-> t, payload |-> p, chain |-> c, token |-> k, recvIsAddr |-> a] :
        t \in TransactionTypes, p \in Payloads,
        c \in ChainInputs \cup {"none"}, k \in TokenInputs \cup {"none"},
        a \in BOOLEAN }

WellShaped(d) ==
    IF d.type \in {"transfer", "swap"} /\ d.payload \in {"badAmount", "full"}
    THEN /\ d.chain # "none" /\ d.token # "none"
         /\ (d.type = "swap" => ~d.recvIsAddr)
    ELSE d.chain = "none" /\ d.token = "none" /\ ~d.recvIsAddr

\* data = await response.json(): it throws, or gives null, or an object
JsonDone(r) ==
    /\ runs[r].pc = "json"
    /\ \/ QueryCatch(r, runs[r], "json")
       \/ Uncaught(r, Returned(runs[r], "json"), "TypeError")
       \/ \E d \in BackendData :
             /\ WellShaped(d)
             /\ Dispatch(r, [Returned(runs[r], "json") EXCEPT
                               !.type = d.type, !.payload = d.payload,
                               !.chain = d.chain, !.token = d.token,
                               !.recvIsAddr = d.recvIsAddr])

----------------------------------------------------------------------------
(* sendTransaction and the transfer branch of queryIntent *)

\* A variant of T_SwitchChain: a failed chain switch is tried again
T_SwitchChainRetry(r) ==
    /\ runs[r].pc = "t_switchChain"
    /\ \E ok \in BOOLEAN :
          IF ok
          THEN Resume(r, Call(Returned(runs[r], "switchChain"),
                              "getEthersProvider", "t_getEthersProvider"))
          ELSE Resume(r, Call(runs[r], "switchChain", "t_switchChain"))

\* await wallets[0].switchChain(chainId)
T_SwitchChain(r) ==
    /\ runs[r].pc = "t_switchChain"
    /\ \E ok \in BOOLEAN :
          IF ok
          THEN Resume(r, Call(Returned(runs[r], "switchChain"),
                              "getEthersProvider", "t_getEthersProvider"))
          ELSE TransferCatch(r, runs[r], "switchChain")

\* await contractSigner.transfer(receiverAddress, amount_decimals) is started
TransferTo(run, receiverAddress) ==
    Call([run EXCEPT !.transferTo = receiverAddress], "transfer", "t_transfer")

\* A variant of TransferDecimals: the guard on the token's decimals is missing
TransferDecimalsNoTokenGuard(r, run) ==
    IF NoChainDecimals(run.chain) THEN TransferCatch(r, run, "noChainDecimals")
    ELSE IF run.payload = "badAmount" THEN TransferCatch(r, run, "parseUnits")
    ELSE IF run.recvIsAddr THEN Resume(r, TransferTo(run, "receiver"))
    ELSE Resume(r, Call(run, "resolveName", "t_resolveName"))

\* After the provider: the decimals guards, parseUnits, and the receiver,
\* which is resolved as an ENS name unless it is an address.
TransferDecimals(r, run) ==
    IF NoChainDecimals(run.chain) THEN TransferCatch(r, run, "noChainDecimals")
    ELSE IF NoTokenDecimals(run.chain, run.token)
         THEN TransferCatch(r, run, "noTokenDecimals")
    ELSE IF run.payload = "badAmount" THEN TransferCatch(r, run, "parseUnits")
    ELSE IF run.recvIsAddr THEN Resume(r, TransferTo(run, "receiver"))
    ELSE Resume(r, Call(run, "resolveName", "t_resolveName"))

\* await wallets[0].getEthersProvider()
T_GetEthersProvider(r) ==
    /\ runs[r].pc = "t_getEthersProvider"
    /\ \E ok \in BOOLEAN :
          IF ok
          THEN TransferDecimals(r, Returned(runs[r], "getEthersProvider"))
          ELSE TransferCatch(r, runs[r], "getEthersProvider")

\* await mainnetProvider.resolveName(receiver): an address, null, or a rejection
T_ResolveName(r) ==
    /\ runs[r].pc = "t_resolveName"
    /\ \E outcome \in {"address", "null", "reject"} :
          IF outcome = "address"
          THEN Resume(r, TransferTo(Returned(runs[r], "resolveName"), "resolved"))
          ELSE IF outcome = "null"
          THEN TransferCatch(r, Returned(runs[r], "resolveName"), "ensNull")
          ELSE TransferCatch(r, runs[r], "resolveName")

\* A variant of TransferSentStatus: the message of the confirmation is set at once
TransferSentStatusConfirmed == "transferConfirmed"

\* The status set when sendTransaction returned
TransferSentStatus == "transferSent"

\* sendTransaction returned tx: setStatus(Transfer sent), setShowStatusPopup(true),
\* then tx.wait(1) is awaited
TransferSent(r, run) ==
    /\ runs' = [runs EXCEPT ![r] =
                   Call(Logged(Returned(run, "sendTransaction"), TransferSentStatus),
                        "tx.wait", "t_wait")]
    /\ status' = TransferSentStatus
    /\ showStatusPopup' = TRUE
    /\ UNCHANGED <<ssr, privy, loading>>

\* await contractSigner.transfer(receiverAddress, amount_decimals)
T_Transfer(r) ==
    /\ runs[r].pc = "t_transfer"
    /\ \E ok \in BOOLEAN :
          IF ok
          THEN TransferSent(r, Returned(runs[r], "transfer"))
          ELSE TransferCatch(r, runs[r], "transfer")

\* tx.wait(1) returned the receipt: setStatus(Transfer confirmed), setLoading(false)
TransferConfirmed(r, run) ==
    /\ runs' = [runs EXCEPT ![r] = Logged([run EXCEPT !.pc = "done"], "transferConfirmed")]
    /\ status' = "transferConfirmed"
    /\ loading' = FALSE
    /\ UNCHANGED <<ssr, privy, showStatusPopup>>

\* await tx.wait(1)
T_Wait(r) ==
    /\ runs[r].pc = "t_wait"
    /\ \E ok \in BOOLEAN :
          IF ok
          THEN TransferConfirmed(r, Returned(runs[r], "tx.wait"))
          ELSE TransferCatch(r, runs[r], "tx.wait")

----------------------------------------------------------------------------
(* sendOrder, checkAllowanceAndApproveIfNecessary *)

\* await wallets[0].switchChain(chainId)
S_SwitchChain(r) ==
    /\ runs[r].pc = "s_switchChain"
    /\ \E ok \in BOOLEAN :
          IF ok
          THEN Resume(r, Call(Returned(runs[r], "switchChain"),
                              "getEthersProvider", "s_getEthersProvider"))
          ELSE SwapCatch(r, runs[r], "switchChain")

\* await wallets[0].getEthersProvider(); then signer.getAddress() is awaited
S_GetEthersProvider(r) ==
    /\ runs[r].pc = "s_getEthersProvider"
    /\ \E ok \in BOOLEAN :
          IF ok
          THEN Resume(r, Call(Returned(runs[r], "getEthersProvider"),
                              "getAddress", "s_getAddress"))
          ELSE SwapCatch(r, runs[r], "getEthersProvider")

\* After fromAddress: the decimals guards, parseUnits, the quote request is
\* built, and checkAllowanceAndApproveIfNecessary starts with signer.getAddress()
SwapDecimals(r, run) ==
    IF NoChainDecimals(run.chain) THEN SwapCatch(r, run, "noChainDecimals")
    ELSE IF NoTokenDecimals(run.chain, run.token)
         THEN SwapCatch(r, run, "noTokenDecimals")
    ELSE IF run.payload = "badAmount" THEN SwapCatch(r, run, "parseUnits")
    ELSE \E amountDecimals \in 0..MaxAmount :
            Resume(r, Call(Call([run EXCEPT !.required = amountDecimals],
                                "checkAllowance", run.pc),
                           "getAddress", "a_getAddress"))

\* const fromAddress = await signer.getAddress()
S_GetAddress(r) ==
    /\ runs[r].pc = "s_getAddress"
    /\ \E ok \in BOOLEAN :
          IF ok
          THEN SwapDecimals(r, Returned(runs[r], "getAddress"))
          ELSE SwapCatch(r, runs[r], "getAddress")

\* await signer.getAddress(), the owner argument of allowance(...)
A_GetAddress(r) ==
    /\ runs[r].pc = "a_getAddress"
    /\ \E ok \in BOOLEAN :
          IF ok
          THEN Resume(r, Call(Returned(runs[r], "getAddress"), "allowance", "a_allowance"))
          ELSE SwapCatch(r, runs[r], "getAddress")

\* checkAllowanceAndApproveIfNecessary returned: orderBookApi.getQuote is awaited
AllowanceChecked(run) ==
    Call(Returned(run, "checkAllowance"), "getQuote", "s_getQuote")

\* A variant of Gte: the comparison is strict
GteStrict(a, b) == a > b

\* existingAllowance.gte(sellAmountBn)
Gte(a, b) == a >= b

\* if (existingAllowance.gte(sellAmountBn)) ... else approve(target, MaxUint256)
AllowanceBranch(run, existingAllowance) ==
    LET run1 == [run EXCEPT !.allowance = existingAllowance] IN
    IF Gte(existingAllowance, run1.required) THEN AllowanceChecked(run1)
    ELSE Call([run1 EXCEPT !.approved = "MaxUint256"], "approve", "a_approve")

\* await sellTokenContract.allowance(owner, targetContract)
A_Allowance(r) ==
    /\ runs[r].pc = "a_allowance"
    /\ \/ \E existingAllowance \in 0..(MaxAmount + 1) :
             Resume(r, AllowanceBranch(Returned(runs[r], "allowance"), existingAllowance))
       \/ SwapCatch(r, runs[r], "allowance")

\* A variant of ApprovalSent: the approval is not waited for
ApprovalSentNoWait(run) == AllowanceChecked(run)

\* approve returned tx: tx.wait() is awaited
ApprovalSent(run) == Call(run, "approve.wait", "a_wait")

\* await sellTokenSigner.approve(targetContract, MaxUint256)
A_Approve(r) ==
    /\ runs[r].pc = "a_approve"
    /\ \E ok \in BOOLEAN :
          IF ok
          THEN Resume(r, ApprovalSent(Returned(runs[r], "approve")))
          ELSE SwapCatch(r, runs[r], "approve")

\* await tx.wait(): the approval is mined
A_Wait(r) ==
    /\ runs[r].pc = "a_wait"
    /\ \E ok \in BOOLEAN :
          IF ok
          THEN Resume(r, AllowanceChecked(Returned(runs[r], "approve.wait")))
          ELSE SwapCatch(r, runs[r], "approve.wait")

\* await orderBookApi.getQuote(quoteRequest); the quote is adjusted and
\* OrderSigningUtils.signOrder is awaited
S_GetQuote(r) ==
    /\ runs[r].pc = "s_getQuote"
    /\ \E ok \in BOOLEAN :
          IF ok
          THEN Resume(r, Call(Returned(runs[r], "getQuote"), "signOrder", "s_signOrder"))
          ELSE SwapCatch(r, runs[r], "getQuote")

\* await OrderSigningUtils.signOrder(...); orderBookApi.sendOrder is awaited
S_SignOrder(r) ==
    /\ runs[r].pc = "s_signOrder"
    /\ \E ok \in BOOLEAN :
          IF ok
          THEN Resume(r, Call(Returned(runs[r], "signOrder"),
                              "orderBook.sendOrder", "s_sendOrder"))
          ELSE SwapCatch(r, runs[r], "signOrder")

----------------------------------------------------------------------------
(* The swap branch of queryIntent and waitForOrderStatus *)

\* The status set when sendOrder returned
OrderSentStatus == "orderSent"

\* sendOrder returned orderId: setStatus(Order sent), setShowStatusPopup(true),
\* then waitForOrderStatus: its chain guard, orderStatus = OPEN, and the first sleep
OrderSent(r, run) ==
    LET run1 == Call(Logged(Returned(run, "sendOrder"), OrderSentStatus),
                     "waitForOrderStatus", run.pc) IN
    IF ChainUnsupported(run1.chain)
    THEN /\ runs' = [runs EXCEPT ![r] =
                        Logged([run1 EXCEPT !.pc = "done", !.failed = "unsupportedChain"],
                               "oops")]
         /\ status' = "oops"
         /\ showStatusPopup' = TRUE
         /\ loading' = FALSE
         /\ UNCHANGED <<ssr, privy>>
    ELSE /\ runs' = [runs EXCEPT ![r] = Call(run1, "sleep", "w_sleep")]
         /\ status' = OrderSentStatus
         /\ showStatusPopup' = TRUE
         /\ UNCHANGED <<ssr, privy, loading>>

\* return await orderBookApi.sendOrder(orderObj)
S_SendOrder(r) ==
    /\ runs[r].pc = "s_sendOrder"
    /\ \E ok \in BOOLEAN :
          IF ok
          THEN OrderSent(r, Returned(runs[r], "orderBook.sendOrder"))
          ELSE SwapCatch(r, runs[r], "orderBook.sendOrder")

\* await sleep(3000): the timer fires; orderBookApi.getOrder is awaited
W_Sleep(r) ==
    /\ runs[r].pc = "w_sleep"
    /\ Resume(r, Call(Returned(runs[r], "sleep"), "getOrder", "w_getOrder"))

\* A variant of KeepPolling: the loop goes on until the order is filled
KeepPollingUntilFilled(orderStatus) == orderStatus # FULFILLED

\* while (orderStatus == OrderStatus.OPEN)
KeepPolling(orderStatus) == orderStatus = OPEN

\* A variant of FinalOrderStatus: every status but OPEN counts as filled
FinalOrderStatusNotOpen(orderStatus) ==
    IF orderStatus # OPEN THEN "orderFilled" ELSE "orderStatus"

\* orderStatus === OrderStatus.FULFILLED ? Order filled : Order status: ...
FinalOrderStatus(orderStatus) ==
    IF orderStatus = FULFILLED THEN "orderFilled" ELSE "orderStatus"

\* waitForOrderStatus returned: setStatus(...), setLoading(false)
OrderDone(r, run, orderStatus) ==
    /\ runs' = [runs EXCEPT ![r] =
                   Logged([Returned(run, "waitForOrderStatus") EXCEPT
                              !.pc = "done", !.orderStatus = orderStatus],
                          FinalOrderStatus(orderStatus))]
    /\ status' = FinalOrderStatus(orderStatus)
    /\ loading' = FALSE
    /\ UNCHANGED <<ssr, privy, showStatusPopup>>

\* await orderBookApi.getOrder(orderId): a status, or a rejection
W_GetOrder(r) ==
    /\ runs[r].pc = "w_getOrder"
    /\ \/ \E s \in OrderStatuses :
             LET run == [Returned(runs[r], "getOrder") EXCEPT !.answers = Append(@, s)] IN
             IF KeepPolling(s)
             THEN /\ runs[r].polls < MaxPolls
                  /\ Resume(r, Call([run EXCEPT !.polls = @ + 1], "sleep", "w_sleep"))
             ELSE OrderDone(r, run, s)
       \/ SwapCatch(r, runs[r], "getOrder")

----------------------------------------------------------------------------
(* getServerSideProps *)

\* A request for the login page arrives: without a cookie the props are
\* returned at once, otherwise client.verifyAuthToken(cookieAuthToken) is awaited.
SsrRequest ==
    /\ ssr.pc # "verify"
    /\ \E c \in Cookies :
          ssr' = IF NoCookie(c)
                 THEN [IdleSsr EXCEPT !.pc = "done", !.cookie = c]
                 ELSE [IdleSsr EXCEPT !.pc = "verify", !.cookie = c, !.verifyCalls = 1]
    /\ UNCHANGED <<privy, ui, runs>>

\* await client.verifyAuthToken(cookieAuthToken): it returns the claims of a
\* token the provider accepts, or throws (a rejected token, or the provider
\* cannot be reached)
SsrVerifyDone ==
    /\ ssr.pc = "verify"
    /\ \E ok \in BOOLEAN :
          /\ ok => ssr.cookie = "valid"
          /\ ssr' = IF ok
                    THEN [ssr EXCEPT !.pc = "done", !.verified = "ok",
                                      !.redirect = VerifiedRedirect]
                    ELSE [ssr EXCEPT !.pc = "done", !.verified = "threw",
                                      !.redirect = CatchRedirect]
    /\ UNCHANGED <<privy, ui, runs>>

----------------------------------------------------------------------------
Next ==
    \/ SsrRequest
    \/ SsrVerifyDone
    \/ PrivyReady
    \/ Logout
    \/ AuthEffect
    \/ ClickOk
    \/ \E r \in RunIds :
          \/ ClickSubmit(r)
          \/ FetchDone(r)
          \/ JsonDone(r)
          \/ T_SwitchChain(r)
          \/ T_GetEthersProvider(r)
          \/ T_ResolveName(r)
          \/ T_Transfer(r)
          \/ T_Wait(r)
          \/ S_SwitchChain(r)
          \/ S_GetEthersProvider(r)
          \/ S_GetAddress(r)
          \/ A_GetAddress(r)
          \/ A_Allowance(r)
          \/ A_Approve(r)
          \/ A_Wait(r)
          \/ S_GetQuote(r)
          \/ S_SignOrder(r)
          \/ S_SendOrder(r)
          \/ W_Sleep(r)
          \/ W_GetOrder(r)

Spec == Init /\ [][Next]_vars

\* The timer of sleep fires and the promise of getOrder settles.
LiveSpec ==
    /\ Spec
    /\ \A r \in RunIds : WF_vars(W_Sleep(r)) /\ WF_vars(W_GetOrder(r))

----------------------------------------------------------------------------
(* Vocabulary of the properties *)

\* The functions of this repository a run enters; every other entry of
\* calls is a call of a wallet, chain, backend or order-book operation.
Frames == {"sendTransaction", "sendOrder", "checkAllowance", "waitForOrderStatus"}

WalletOps == {"switchChain", "getEthersProvider", "getAddress", "resolveName",
              "transfer", "tx.wait", "allowance", "approve", "approve.wait",
              "getQuote", "signOrder", "orderBook.sendOrder", "sleep", "getOrder"}

ExternalOps == {"fetch", "json"} \cup WalletOps

BackendFailures == {"reject", "notOk", "json"}

FinalStatuses == {"queryFailed", "transferConfirmed", "orderFilled", "orderStatus", "oops"}

\* The run r has started the workflow f
Started(r, f) == Has(runs[r].calls, f)

\* The calls of run, except its last, have all returned
EarlierReturned(run) ==
    \A op \in ExternalOps :
        Count(run.oks, op) >=
            Count(run.calls, op) - (IF run.calls # <<>> /\ Last(run.calls) = op THEN 1 ELSE 0)

----------------------------------------------------------------------------
\* C1: in a run whose backend call succeeded and whose dispatch was made,
\* sendTransaction is started if and only if transaction_type is "transfer",
\* sendOrder if and only if it is "swap", never both, and each at most once.
C1_DispatchFollowsClassification ==
    \A r \in RunIds :
        (Has(runs[r].oks, "json") /\ runs[r].pc # "json") =>
            /\ Started(r, "sendTransaction") <=> runs[r].type = "transfer"
            /\ Started(r, "sendOrder") <=> runs[r].type = "swap"
            /\ ~(Started(r, "sendTransaction") /\ Started(r, "sendOrder"))
            /\ Count(runs[r].calls, "sendTransaction") <= 1
            /\ Count(runs[r].calls, "sendOrder") <= 1

----------------------------------------------------------------------------
\* C2: within one run the confirmed / filled status is set only after the
\* sent status of the same run, the sent status only after sendTransaction /
\* sendOrder returned, and a confirmed, filled or error status is the last
\* status the run sets.
C2_StatusMachine ==
    \A r \in RunIds :
        LET log == runs[r].statusLog IN
        \A i \in DOMAIN log :
            /\ log[i] = "transferConfirmed" => \E j \in 1..(i-1) : log[j] = "transferSent"
            /\ log[i] = "orderFilled" => \E j \in 1..(i-1) : log[j] = "orderSent"
            /\ log[i] = "transferSent" => Has(runs[r].oks, "sendTransaction")
            /\ log[i] = "orderSent" => Has(runs[r].oks, "sendOrder")
            /\ log[i] \in FinalStatuses => i = Len(log)

C2_Witness ==
    \E r \in RunIds : runs[r].statusLog = <<"transferSent", "transferConfirmed">>

----------------------------------------------------------------------------
\* C3: in sendOrder every step starts only after the earlier steps returned:
\* switchChain after the wallet and chain guards, the allowance check after
\* the chain switch and the decimal normalization, approve after the
\* allowance check, getQuote after the allowance check and after the
\* approval, if one was sent, was mined, signOrder after the quote, the order
\* book's sendOrder after the signature; after a failure no call is made.
C3_SendOrderSteps ==
    \A r \in RunIds :
        Started(r, "sendOrder") =>
            LET run == runs[r] IN
            /\ Has(run.calls, "switchChain") =>
                   run.wallet /\ ~ChainUnsupported(run.chain)
            /\ Has(run.calls, "allowance") =>
                   /\ Has(run.oks, "switchChain")
                   /\ ~NoChainDecimals(run.chain)
                   /\ ~NoTokenDecimals(run.chain, run.token)
                   /\ run.payload = "full"
            /\ Has(run.calls, "approve") => Has(run.oks, "allowance")
            /\ Has(run.calls, "getQuote") =>
                   /\ Has(run.oks, "allowance")
                   /\ Has(run.calls, "approve") => Has(run.oks, "approve.wait")
            /\ Has(run.calls, "signOrder") => Has(run.oks, "getQuote")
            /\ Has(run.calls, "orderBook.sendOrder") => Has(run.oks, "signOrder")
            /\ Has(run.oks, "sendOrder") => Has(run.oks, "orderBook.sendOrder")
            /\ EarlierReturned(run)
            /\ run.failed # "none" =>
                   /\ run.pc = "done"
                   /\ run.failed \in ExternalOps => Last(run.calls) = run.failed

C3_Witness ==
    \E r \in RunIds :
        /\ Has(runs[r].oks, "approve.wait")
        /\ Has(runs[r].oks, "orderBook.sendOrder")

----------------------------------------------------------------------------
\* C4: the status waitForOrderStatus returns is fulfilled, cancelled or
\* expired, never open or presignaturePending.
C4_ReturnsTerminalStatus ==
    \A r \in RunIds :
        runs[r].orderStatus # "none" =>
            runs[r].orderStatus \in {"fulfilled", "cancelled", "expired"}

----------------------------------------------------------------------------
\* C5: the step in which a workflow throws (sendTransaction, tx.wait,
\* sendOrder or waitForOrderStatus, or the argument amount.toString() of
\* the two) sets the Oops status, shows the popup, sets loading to false and
\* ends the run, and makes no further call.
WorkflowThrows(r) ==
    /\ runs[r].failed = "none"
    /\ runs'[r].failed # "none"
    /\ runs'[r].type \in {"transfer", "swap"}
    /\ runs'[r].payload # "missing"

C5_ExceptionReachesUI ==
    [][\A r \in RunIds :
          WorkflowThrows(r) =>
              /\ status' = "oops"
              /\ showStatusPopup'
              /\ ~loading'
              /\ runs'[r].pc = "done"
              /\ Last(runs'[r].statusLog) = "oops"
              /\ \A op \in ExternalOps :
                     Count(runs'[r].calls, op) = Count(runs[r].calls, op)]_vars

C5_Witness ==
    \E r \in RunIds :
        /\ runs[r].failed = "tx.wait"
        /\ runs[r].pc = "done"
        /\ status = "oops" /\ showStatusPopup /\ ~loading

----------------------------------------------------------------------------
\* C6: within one run fetch, switchChain, transfer, approve, getQuote,
\* signOrder and the order book's sendOrder are each called at most once (as
\* is every other operation but the order-status query, the sleep before it
\* and signer.getAddress), and the call that failed is the last call made.
OnceOps == ExternalOps \ {"getOrder", "sleep", "getAddress"}

----------------------------------------------------------------------------
\* C7: a run of queryIntent starts only in a state where ready and
\* authenticated are both true, and once the effect on [ready, authenticated]
\* has run, ready and not authenticated means the route is "/".
RunStarts(r) == runs[r].pc # "fetch" /\ runs'[r].pc = "fetch"

C7_AuthenticatedOnly ==
    [][/\ \A r \in RunIds : RunStarts(r) => (ready /\ authenticated)
       /\ (ready' /\ ~authenticated' /\ ~effectPending') => route' = "/"]_vars

C7_Witness ==
    /\ ready /\ ~authenticated /\ route = "/"
    /\ \E r \in RunIds : runs[r].pc # "idle"

----------------------------------------------------------------------------
\* C8: when the backend request fails (fetch rejects, the response is not
\* OK, or its body cannot be parsed) that step sets the "Failed to query
\* intent" status, shows the popup, sets loading to false and ends the run,
\* which has called nothing but fetch and json.
C8_BackendFailure ==
    [][\A r \in RunIds :
          (runs[r].failed = "none" /\ runs'[r].failed \in BackendFailures) =>
              /\ status' = "queryFailed"
              /\ showStatusPopup'
              /\ ~loading'
              /\ runs'[r].pc = "done"
              /\ runs'[r].statusLog = <<"queryFailed">>
              /\ \A i \in DOMAIN runs'[r].calls : runs'[r].calls[i] \in {"fetch", "json"}]_vars

C8_Witness ==
    \E r \in RunIds :
        /\ runs[r].failed = "json"
        /\ runs[r].calls = <<"fetch", "json">>
        /\ status = "queryFailed" /\ showStatusPopup /\ ~loading

----------------------------------------------------------------------------
\* C9: once every run of queryIntent has ended, loading is false.
C9_LoadingReset ==
    (\A r \in RunIds : ~InFlight(r)) => ~loading

----------------------------------------------------------------------------
\* C10: at most one run of queryIntent is in flight, and loading is true
\* while one is.
C10_OneRunInFlight ==
    /\ Cardinality({r \in RunIds : InFlight(r)}) <= 1
    /\ \A r \in RunIds : InFlight(r) => loading

\* The user dismissed the popup of a pending transfer: the Submit button is
\* rendered while the run waits for the confirmation.
C10_Witness ==
    \E r \in RunIds :
        /\ runs[r].pc = "t_wait"
        /\ SubmitRendered
        /\ SubmitDisabled

----------------------------------------------------------------------------
\* C11: in the step in which a run sets a final status (confirmed, filled,
\* order status, Oops or query failed) the status popup is shown.
SetsFinalStatus(r) ==
    /\ Len(runs'[r].statusLog) > Len(runs[r].statusLog)
    /\ Last(runs'[r].statusLog) \in FinalStatuses

C11_FinalStatusShown ==
    [][\A r \in RunIds : SetsFinalStatus(r) => showStatusPopup']_vars

----------------------------------------------------------------------------
\* C12: transfer is called only when a wallet is connected, the chain is in
\* supportedChains, decimals exist for the chain and for the token, and the
\* receiver is an address or a name that resolved; its first argument is the
\* receiver itself when it is an address and the resolved address otherwise.
\* A sendTransaction that ended with a guard not passed threw, and did not
\* call transfer.
TransferGuardsPass(run) ==
    /\ run.wallet
    /\ ~ChainUnsupported(run.chain)
    /\ ~NoChainDecimals(run.chain)
    /\ ~NoTokenDecimals(run.chain, run.token)

C12_TransferGuards ==
    \A r \in RunIds :
        Started(r, "sendTransaction") =>
            LET run == runs[r] IN
            /\ Has(run.calls, "transfer") =>
                   /\ TransferGuardsPass(run)
                   /\ run.recvIsAddr \/ Has(run.oks, "resolveName")
                   /\ run.transferTo = IF run.recvIsAddr THEN "receiver" ELSE "resolved"
                   /\ run.recvIsAddr => ~Has(run.calls, "resolveName")
            /\ (run.pc = "done" /\ ~TransferGuardsPass(run)) =>
                   run.failed # "none" /\ ~Has(run.calls, "transfer")
            /\ run.failed = "ensNull" => ~Has(run.calls, "transfer")
            /\ ~Has(run.calls, "transfer") => run.transferTo = "none"

C12_Witness ==
    \E r \in RunIds :
        /\ ~runs[r].recvIsAddr
        /\ runs[r].transferTo = "resolved"
        /\ Has(runs[r].oks, "transfer")

----------------------------------------------------------------------------
\* C13: when sendTransaction or sendOrder throws a validation error (no
\* wallet, unsupported chain, no decimals for the chain, no decimals for the
\* token), switchChain has not been called.
ValidationErrors == {"noWallet", "unsupportedChain", "noChainDecimals", "noTokenDecimals"}

C13_ValidationLeavesWallet ==
    \A r \in RunIds :
        runs[r].failed \in ValidationErrors => ~Has(runs[r].calls, "switchChain")

----------------------------------------------------------------------------
\* C14: once the allowance was read, approve has been called if and only if
\* the allowance is strictly less than the required amount; it is called at
\* most once, with MaxUint256, and checkAllowanceAndApproveIfNecessary
\* returns after an approval only when its transaction was mined.
C14_ApproveIfNecessary ==
    \A r \in RunIds :
        LET run == runs[r] IN
        /\ Has(run.oks, "allowance") =>
               (Has(run.calls, "approve") <=> run.allowance < run.required)
        /\ Has(run.calls, "approve") =>
               /\ Has(run.oks, "allowance")
               /\ Count(run.calls, "approve") = 1
               /\ run.approved = "MaxUint256"
        /\ (Has(run.oks, "checkAllowance") /\ Has(run.calls, "approve")) =>
               Has(run.oks, "approve.wait")
        /\ ~Has(run.calls, "approve") => run.approved = "none"

\* The allowance equals the required amount and no approval was sent.
C14_Witness ==
    \E r \in RunIds :
        /\ Has(runs[r].oks, "checkAllowance")
        /\ runs[r].required > 0
        /\ runs[r].allowance = runs[r].required
        /\ ~Has(runs[r].calls, "approve")

----------------------------------------------------------------------------
\* C15: waitForOrderStatus sleeps before each query; it returns the first
\* status that is not OPEN, so it has queried at least once, every earlier
\* answer was OPEN and no query follows; while every answer is OPEN it has
\* not returned; and a wait that is pending ends, by returning once an answer
\* is not OPEN or by the failure of a query.
Waiting(r) == runs[r].pc \in {"w_sleep", "w_getOrder"}

WaitReturned(r) == Has(runs[r].oks, "waitForOrderStatus")

C15_PollingSafe ==
    \A r \in RunIds :
        Started(r, "waitForOrderStatus") =>
            LET run == runs[r] IN
            /\ Count(run.calls, "getOrder") = Count(run.oks, "sleep")
            /\ Count(run.calls, "sleep") - Count(run.calls, "getOrder") \in {0, 1}
            /\ Len(run.answers) = Count(run.oks, "getOrder")
            /\ \A i \in 1..(Len(run.answers) - 1) : run.answers[i] = OPEN
            /\ WaitReturned(r) =>
                   /\ Len(run.answers) >= 1
                   /\ run.orderStatus = Last(run.answers)
                   /\ run.orderStatus # OPEN
                   /\ Count(run.calls, "getOrder") = Len(run.answers)
                   /\ ~Waiting(r)
            /\ (\A i \in DOMAIN run.answers : run.answers[i] = OPEN) => ~WaitReturned(r)
            /\ Waiting(r) => \A i \in DOMAIN run.answers : run.answers[i] = OPEN

C15_WaitForOrderStatus ==
    /\ []C15_PollingSafe
    /\ \A r \in RunIds :
          Waiting(r) ~> (WaitReturned(r) \/ runs[r].failed = "getOrder")

\* The order was OPEN for MaxPolls queries and then expired.
C15_Witness ==
    \E r \in RunIds :
        /\ WaitReturned(r)
        /\ Len(runs[r].answers) = MaxPolls + 1
        /\ runs[r].orderStatus = "expired"

----------------------------------------------------------------------------
\* C16: "Transfer confirmed" is set only after tx.wait(1) returned, "Order
\* filled" if and only if waitForOrderStatus returned FULFILLED, and the
\* "Order status" message for every other status it returned.
C16_SuccessIsReal ==
    \A r \in RunIds :
        LET run == runs[r] IN
        /\ Has(run.statusLog, "transferConfirmed") =>
               Has(run.oks, "transfer") /\ Has(run.oks, "tx.wait")
        /\ Has(run.statusLog, "orderFilled") =>
               WaitReturned(r) /\ run.orderStatus = FULFILLED
        /\ Has(run.statusLog, "orderStatus") =>
               WaitReturned(r) /\ run.orderStatus # FULFILLED
        /\ WaitReturned(r) =>
               Last(run.statusLog) =
                   (IF run.orderStatus = FULFILLED THEN "orderFilled" ELSE "orderStatus")

C16_Witness ==
    \E r \in RunIds :
        /\ runs[r].orderStatus = "cancelled"
        /\ runs[r].statusLog = <<"orderSent", "orderStatus">>
        /\ status = "orderStatus"

----------------------------------------------------------------------------
\* C17: getServerSideProps redirects to /dashboard if and only if the
\* privy-token cookie is present and verifyAuthToken returned; without a
\* cookie it has not called verifyAuthToken and returns no redirect, and when
\* verifyAuthToken threw it returns no redirect.
C17_LoginRedirect ==
    /\ ssr.pc = "done" =>
           /\ ssr.redirect = "/dashboard" <=>
                  (~NoCookie(ssr.cookie) /\ ssr.verified = "ok")
           /\ ssr.redirect \in {"none", "/dashboard"}
           /\ NoCookie(ssr.cookie) => (ssr.verifyCalls = 0 /\ ssr.redirect = "none")
           /\ ssr.verified = "threw" => ssr.redirect = "none"
           /\ ~NoCookie(ssr.cookie) => (ssr.verifyCalls = 1 /\ ssr.verified # "none")
    /\ ssr.pc = "verify" => (~NoCookie(ssr.cookie) /\ ssr.redirect = "none")
    /\ ssr.verified = "ok" => ssr.cookie = "valid"

\* The verification of a token the provider would accept threw.
C17_Witness ==
    /\ ssr.pc = "done"
    /\ ssr.cookie = "valid"
    /\ ssr.verified = "threw"
    /\ ssr.redirect = "none"

====
